---- MODULE Spec2Model ----
(***************************************************************************)
(* Model of pymc/step_methods/metropolis.py: the Metropolis and            *)
(* BinaryMetropolis step methods and the scale tuner.                      *)
(*                                                                         *)
(* Real numbers are exact rationals <<n, d>> in lowest terms with d > 0.   *)
(* Log-probabilities are extended reals <<tag, v>> with tag one of         *)
(* "fin", "-inf", "+inf", "nan", following IEEE subtraction.               *)
(***************************************************************************)
EXTENDS Integers, Sequences, FiniteSets

VARIABLES
    phase,   \* "new" before the constructor ran, then "ready" or "error"
    args,    \* the constructor's arguments: cls, vars, scaling, tune, tune_interval
    self,    \* the step instance's fields
    call,    \* the locals of the last astep call (q0, q, q_new, ...)
    calls,   \* number of astep calls made on the instance
    trace,   \* per call, the amount added to self.accepted by that call
    fired,   \* the call numbers in which the tuning branch was taken
    t        \* arguments and result of the last direct call of tune()

vars == <<phase, args, self, call, calls, trace, fired, t>>

\* ------------------------------------------------------------------ bounds
MaxCalls == 5
MaxInterval == 2

\* ------------------------------------------------------------- rationals
RECURSIVE GCD(_, _)
GCD(a, b) == IF b = 0 THEN a ELSE GCD(b, a % b)

Abs(n) == IF n < 0 THEN -n ELSE n

Norm(n, d) ==
    LET g == GCD(Abs(n), Abs(d))
        s == IF d < 0 THEN -1 ELSE 1
    IN  <<(s * n) \div g, (s * d) \div g>>

Rat(n) == <<n, 1>>
RMul(x, y) == Norm(x[1] * y[1], x[2] * y[2])
RAdd(x, y) == Norm(x[1] * y[2] + y[1] * x[2], x[2] * y[2])
RSub(x, y) == Norm(x[1] * y[2] - y[1] * x[2], x[2] * y[2])
RLt(x, y) == x[1] * y[2] < y[1] * x[2]
RGt(x, y) == RLt(y, x)
IsInt(x) == x[2] = 1

\* numpy.round(x, 0): to the nearest integer, halves to the even neighbour
Round(x) ==
    LET f == x[1] \div x[2]
        r == x[1] - f * x[2]
    IN  IF 2 * r < x[2] THEN Rat(f)
        ELSE IF 2 * r > x[2] THEN Rat(f + 1)
        ELSE IF f % 2 = 0 THEN Rat(f) ELSE Rat(f + 1)

\* -------------------------------------------------------- extended reals
Fin(v) == <<"fin", v>>
NegInf == <<"-inf", 0>>
PosInf == <<"+inf", 0>>
NaN == <<"nan", 0>>

\* a - b on floats holding an integer or an infinity
FSub(a, b) ==
    IF a[1] = "nan" \/ b[1] = "nan" THEN NaN
    ELSE IF a[1] = "fin" /\ b[1] = "fin" THEN Fin(a[2] - b[2])
    ELSE IF a[1] = "fin" THEN (IF b[1] = "-inf" THEN PosInf ELSE NegInf)
    ELSE IF b[1] = "fin" THEN a
    ELSE IF a[1] = b[1] THEN NaN ELSE a

\* ------------------------------------------------------------ the tuner
\* a mis-ordered table: the > 0.5 row is tried before > 0.95 and > 0.75
tuneAscending(scale, acc_rate) ==
    IF RLt(acc_rate, <<1, 1000>>) THEN RMul(scale, <<1, 10>>)
    ELSE IF RLt(acc_rate, <<1, 20>>) THEN RMul(scale, <<1, 2>>)
    ELSE IF RLt(acc_rate, <<1, 5>>) THEN RMul(scale, <<9, 10>>)
    ELSE IF RGt(acc_rate, <<1, 2>>) THEN RMul(scale, <<11, 10>>)
    ELSE IF RGt(acc_rate, <<3, 4>>) THEN RMul(scale, <<2, 1>>)
    ELSE IF RGt(acc_rate, <<19, 20>>) THEN RMul(scale, <<10, 1>>)
    ELSE scale

tune(scale, acc_rate) ==
    IF RLt(acc_rate, <<1, 1000>>) THEN RMul(scale, <<1, 10>>)
    ELSE IF RLt(acc_rate, <<1, 20>>) THEN RMul(scale, <<1, 2>>)
    ELSE IF RLt(acc_rate, <<1, 5>>) THEN RMul(scale, <<9, 10>>)
    ELSE IF RGt(acc_rate, <<19, 20>>) THEN RMul(scale, <<10, 1>>)
    ELSE IF RGt(acc_rate, <<3, 4>>) THEN RMul(scale, <<2, 1>>)
    ELSE IF RGt(acc_rate, <<1, 2>>) THEN RMul(scale, <<11, 10>>)
    ELSE scale

\* ------------------------------------------------- collaborators' parts
\* dtype kinds of the variables are "continuous", "binary" and "count";
\* discrete_types holds the integer-valued ones
discrete_types == {"binary", "count"}

\* exp() at the negative integers the model's log-probabilities produce
\* (0.368 and 0.135, to three decimals)
Exp(v) == IF v = -1 THEN <<46, 125>> ELSE IF v = -2 THEN <<27, 200>> ELSE <<0, 1>>

\* arraystep.metrop_select with its uniform draw u made explicit:
\* accept when mr >= 0, else when u < exp(mr)
metrop_select(mr, q, q0, u) ==
    IF mr[1] = "+inf" \/ (mr[1] = "fin" /\ mr[2] >= 0) THEN q
    ELSE IF mr[1] = "fin" /\ RLt(u, Exp(mr[2])) THEN q
    ELSE q0

\* ------------------------------------------------------ input domains
NoInstance == [none |-> TRUE]
NoCall == [none |-> TRUE]
Scalings == {Rat(0), Rat(1)}
Intervals == 1..MaxInterval
MetropolisVarLists == {<<"continuous">>, <<"continuous", "count">>}
BinaryVarLists ==
    {<<"binary">>, <<"continuous", "binary">>, <<"count">>}
\* logp at the current state and at the candidate
CurrentLogpVals == {NegInf, Fin(0)}
LogpVals == {NegInf, Fin(-1), Fin(0)}
Uniforms == {<<0, 1>>, <<1, 2>>}
Deviates == {Rat(0), <<1, 2>>}

\* the values a variable of kind k takes in a state vector
ValuesOf(k) == IF k = "continuous" THEN {<<1, 2>>} ELSE {Rat(0), Rat(1)}
StateVectors(vs) == {q \in [1..Len(vs) -> {Rat(0), Rat(1), <<1, 2>>}] :
                        \A i \in 1..Len(vs) : q[i] \in ValuesOf(vs[i])}
DeviateVectors(n) == [1..n -> Deviates]
UniformVectors(n) == [1..n -> Uniforms]

\* -------------------------------------------------------------- Metropolis
\* Metropolis.__init__: the fields of a new instance
MetropolisFields(a) ==
    [scaling |-> a.scaling,
     tune |-> a.tune,
     tune_interval |-> a.tune_interval,
     steps_until_tune |-> a.tune_interval,
     accepted |-> 0,
     discrete |-> [i \in 1..Len(a.vars) |-> a.vars[i] \in discrete_types]]

\* tunes whenever the countdown is zero, whatever the tune flag says
TuneDueIgnoringFlag(s) == s.steps_until_tune = 0

\* "if self.tune and not self.steps_until_tune"
TuneDue(s) == s.tune /\ s.steps_until_tune = 0

\* self.accepted / float(self.tune_interval)
AccRate(s) == Norm(s.accepted, s.tune_interval)

\* a tuning block that forgets to reset the acceptance counter
TunedKeepingCount(s) ==
    [s EXCEPT !.scaling = tune(s.scaling, AccRate(s)),
              !.steps_until_tune = s.tune_interval]

\* a tuning block that restarts the countdown one short
TunedShortCountdown(s) ==
    [s EXCEPT !.scaling = tune(s.scaling, AccRate(s)),
              !.steps_until_tune = s.tune_interval - 1,
              !.accepted = 0]

\* the tuning block of astep
Tuned(s) ==
    [s EXCEPT !.scaling = tune(s.scaling, AccRate(s)),
              !.steps_until_tune = s.tune_interval,
              !.accepted = 0]

\* delta = self.proposal_dist() * self.scaling
Delta(dev, s) == [i \in DOMAIN dev |-> RMul(dev[i], s.scaling)]

\* a candidate whose discrete coordinates are left unrounded
CandidateUnrounded(q0, delta, discrete) ==
    [i \in DOMAIN q0 |-> RAdd(q0[i], delta[i])]

\* q = q0 + delta, the discrete coordinates rounded to integers
Candidate(q0, delta, discrete) ==
    [i \in DOMAIN q0 |->
        IF discrete[i] THEN Round(RAdd(q0[i], delta[i])) ELSE RAdd(q0[i], delta[i])]

\* the operands of the difference exchanged
DeltaLogpSwapped(logp_q, logp_q0) == FSub(logp_q0, logp_q)

\* logp(q) - logp(q0)
DeltaLogp(logp_q, logp_q0) == FSub(logp_q, logp_q0)

\* counts only a returned state that differs from q0
AcceptedIncMovesOnly(q_new, q0, q) ==
    IF \E i \in DOMAIN q0 : q_new[i] # q0[i] THEN 1 ELSE 0

\* "if (any(q_new != q0) or all(q0 == q)): self.accepted += 1"
AcceptedInc(q_new, q0, q) ==
    IF (\E i \in DOMAIN q0 : q_new[i] # q0[i]) \/ (\A i \in DOMAIN q0 : q0[i] = q[i])
    THEN 1 ELSE 0

\* the constructor arguments over which the model ranges
InitArgs ==
    {[cls |-> c, vars |-> v, scaling |-> s, tune |-> b, tune_interval |-> n] :
        c \in {"Metropolis", "BinaryMetropolis"},
        v \in MetropolisVarLists \cup BinaryVarLists,
        s \in Scalings, b \in BOOLEAN, n \in Intervals}

Init ==
    /\ phase = "new"
    /\ args \in {a \in InitArgs :
                    a.vars \in (IF a.cls = "Metropolis" THEN MetropolisVarLists
                                ELSE BinaryVarLists)}
    /\ self = NoInstance
    /\ call = NoCall
    /\ calls = 0
    /\ trace = <<>>
    /\ fired = {}
    /\ t = NoCall

\* Metropolis(vars, scaling=..., tune=..., tune_interval=...)
MetropolisInit ==
    /\ phase = "new"
    /\ args.cls = "Metropolis"
    /\ phase' = "ready"
    /\ self' = MetropolisFields(args)
    /\ UNCHANGED <<args, call, calls, trace, fired, t>>

\* Metropolis.astep(q0, logp): q0, the proposal's deviate, the two values of
\* logp and metrop_select's uniform draw are the call's inputs
Astep ==
    /\ phase = "ready"
    /\ args.cls = "Metropolis"
    /\ calls < MaxCalls
    /\ \E q0 \in StateVectors(args.vars), dev \in DeviateVectors(Len(args.vars)),
          logp_q0 \in CurrentLogpVals, logp_q \in LogpVals, u \in Uniforms :
        \E s1 \in {IF TuneDue(self) THEN Tuned(self) ELSE self} :
        \E q \in {Candidate(q0, Delta(dev, s1), s1.discrete)} :
        \E q_new \in {metrop_select(DeltaLogp(logp_q, logp_q0), q, q0, u)} :
        \E inc \in {AcceptedInc(q_new, q0, q)} :
            /\ (q = q0 => logp_q = logp_q0)
            /\ self' = [s1 EXCEPT !.accepted = s1.accepted + inc,
                                  !.steps_until_tune = s1.steps_until_tune - 1]
            /\ call' = [q0 |-> q0, delta |-> Delta(dev, s1), q |-> q,
                        logp_q |-> logp_q, logp_q0 |-> logp_q0,
                        mr |-> DeltaLogp(logp_q, logp_q0), u |-> u, q_new |-> q_new,
                        acc_rate |-> IF TuneDue(self) THEN AccRate(self) ELSE <<-1, 1>>]
            /\ calls' = calls + 1
            /\ trace' = Append(trace, inc)
            /\ fired' = IF TuneDue(self) THEN fired \cup {calls + 1} ELSE fired
    /\ UNCHANGED <<phase, args, t>>

\* -------------------------------------------------------- BinaryMetropolis
\* BinaryMetropolis.__init__: the fields of a new instance
BinaryFields(a) ==
    [scaling |-> a.scaling,
     tune |-> a.tune,
     tune_interval |-> a.tune_interval,
     steps_until_tune |-> a.tune_interval,
     accepted |-> 0]

\* "if not all([v.dtype in discrete_types for v in vars]): raise ValueError"
BinaryVarsOk(vs) == \A i \in 1..Len(vs) : vs[i] \in discrete_types

\* BinaryMetropolis(vars, scaling=..., tune=..., tune_interval=...)
BinaryInit ==
    /\ phase = "new"
    /\ args.cls = "BinaryMetropolis"
    /\ IF BinaryVarsOk(args.vars)
       THEN phase' = "ready" /\ self' = BinaryFields(args)
       ELSE phase' = "error" /\ self' = NoInstance
    /\ UNCHANGED <<args, call, calls, trace, fired, t>>

RECURSIVE Pow2(_)
Pow2(k) == IF k = 0 THEN 1 ELSE 2 * Pow2(k - 1)

\* p_jump = 1. - .5**self.scaling, at a whole-number scaling
PJump(scaling) == RSub(Rat(1), <<1, Pow2(scaling[1])>>)

\* q = copy(q0); q[switch_locs] = True - q[switch_locs]
Flipped(q0, rand_array, p_jump) ==
    [i \in DOMAIN q0 |->
        IF RLt(rand_array[i], p_jump) THEN RSub(Rat(1), q0[i]) ELSE q0[i]]

\* the body of BinaryMetropolis.astep, leaving the instance as next_self
BinaryStep(next_self) ==
    /\ phase = "ready"
    /\ args.cls = "BinaryMetropolis"
    /\ calls < MaxCalls
    /\ \E q0 \in StateVectors(args.vars), rand_array \in UniformVectors(Len(args.vars)),
          logp_q0 \in CurrentLogpVals, logp_q \in LogpVals, u \in Uniforms :
        \E q \in {Flipped(q0, rand_array, PJump(self.scaling))} :
            /\ (q = q0 => logp_q = logp_q0)
            /\ call' = [q0 |-> q0, p_jump |-> PJump(self.scaling),
                        rand_array |-> rand_array, q |-> q,
                        logp_q |-> logp_q, logp_q0 |-> logp_q0,
                        mr |-> DeltaLogp(logp_q, logp_q0), u |-> u,
                        q_new |-> metrop_select(DeltaLogp(logp_q, logp_q0), q, q0, u)]
    /\ self' = next_self
    /\ calls' = calls + 1
    /\ UNCHANGED <<phase, args, trace, fired, t>>

\* an astep that runs the countdown of the general step
BinaryAstepCounting ==
    BinaryStep([self EXCEPT !.steps_until_tune = self.steps_until_tune - 1])

\* BinaryMetropolis.astep(q0, logp)
BinaryAstep == BinaryStep(self)

Next == MetropolisInit \/ Astep \/ BinaryInit \/ BinaryAstep

Spec == Init /\ [][Next]_vars

\* ------------------------------------------------------ tune() on its own
TuneScales == {<<1, 2>>, Rat(1), Rat(3)}
AccRates == {Norm(a, 1000) : a \in 0..1000}

InitTune ==
    /\ phase = "tune"
    /\ args = NoInstance
    /\ self = NoInstance
    /\ call = NoCall
    /\ calls = 0
    /\ trace = <<>>
    /\ fired = {}
    /\ t \in {[scale |-> sc, acc_rate |-> r, done |-> FALSE, result |-> Rat(0)] :
                sc \in TuneScales, r \in AccRates}

\* result = tune(scale, acc_rate)
TuneCall ==
    /\ phase = "tune"
    /\ ~t.done
    /\ t' = [t EXCEPT !.done = TRUE, !.result = tune(t.scale, t.acc_rate)]
    /\ UNCHANGED <<phase, args, self, call, calls, trace, fired>>

NextTune == TuneCall

SpecTune == InitTune /\ [][NextTune]_vars

\* ------------------------------------------------------------------ claims
IsMetropolis == phase = "ready" /\ args.cls = "Metropolis"
IsBinary == phase = "ready" /\ args.cls = "BinaryMetropolis"
AstepTaken == IsMetropolis /\ calls' = calls + 1

\* the acceptance rate in thousandths (the rates of SpecTune are a / 1000)
Thousandths(r) == (r[1] * 1000) \div r[2]

\* the multiplier table by disjoint intervals of the rate
ExpectedMultiplier(a) ==
    IF a < 1 THEN <<1, 10>>
    ELSE IF a < 50 THEN <<1, 2>>
    ELSE IF a < 200 THEN <<9, 10>>
    ELSE IF a <= 500 THEN <<1, 1>>
    ELSE IF a <= 750 THEN <<11, 10>>
    ELSE IF a <= 950 THEN <<2, 1>>
    ELSE <<10, 1>>

\* C1: for every scale s > 0 and rate r in [0, 1], tune(s, r) is s times the
\* multiplier of the first matching row; s unchanged for 0.2 <= r <= 0.5; a
\* rate above 0.95 gives x10; each boundary value falls in the weaker row.
C1_TuneTable ==
    (t.done /\ RGt(t.scale, Rat(0))) =>
        t.result = RMul(t.scale, ExpectedMultiplier(Thousandths(t.acc_rate)))

C1_Witness ==
    t.done /\ t.scale = Rat(3) /\ t.acc_rate = <<97, 100>> /\ t.result = Rat(30)

\* C2: scaling changes only in an astep call entered with steps_until_tune = 0
\* while tuning is enabled; with tuning disabled it keeps its initial value.
C2_ScalingOnlyAtTune ==
    /\ [][(AstepTaken /\ self'.scaling # self.scaling)
            => (self.tune /\ self.steps_until_tune = 0)]_vars
    /\ []((IsMetropolis /\ ~self.tune) => self.scaling = args.scaling)

C2_Witness ==
    IsMetropolis /\ self.tune /\ fired # {} /\ self.scaling # args.scaling

\* C3 as stated: whatever the tune flag, accepted never exceeds tune_interval.
C3_Original == IsMetropolis => self.accepted <= self.tune_interval

\* C3 amended: with tuning enabled accepted never exceeds tune_interval; in
\* every call the counter is reset to 0 exactly when the countdown is reset
\* (a call that restarts the countdown leaves accepted at that call's own
\* increment, any other call adds its increment to the previous count).
C3_CounterLockstep ==
    /\ []((IsMetropolis /\ self.tune) => self.accepted <= self.tune_interval)
    /\ [][AstepTaken =>
            IF self'.steps_until_tune # self.steps_until_tune - 1
            THEN self'.accepted = trace'[calls']
            ELSE self'.accepted = self.accepted + trace'[calls']]_vars

C3_Witness ==
    IsMetropolis /\ self.tune /\ self.tune_interval = 2 /\ calls = 3
    /\ trace = <<1, 1, 1>> /\ self.accepted = 1 /\ self.steps_until_tune = 1

\* C4: scaling is strictly positive after construction and after every astep.
C4_ScalePositive == IsMetropolis => RGt(self.scaling, Rat(0))

\* C5: every state astep returns is an integer at each discrete index, the
\* candidate too, and the candidate's continuous coordinates are q0 + delta.
C5_DiscreteInteger ==
    (IsMetropolis /\ calls > 0) =>
        \A i \in DOMAIN call.q0 :
            IF self.discrete[i]
            THEN IsInt(call.q_new[i]) /\ IsInt(call.q[i])
            ELSE call.q[i] = RAdd(call.q0[i], call.delta[i])

C5_Witness ==
    /\ IsMetropolis /\ calls > 0 /\ args.vars = <<"continuous", "count">>
    /\ call.q0 = <<(<<1, 2>>), Rat(1)>>
    /\ call.delta = <<Rat(0), (<<1, 2>>)>>
    /\ call.q = <<(<<1, 2>>), Rat(2)>>
    /\ call.q_new = call.q

\* C6: BinaryMetropolis is constructed exactly when every variable is binary;
\* any other variable set ends in the ValueError.
C6_BinaryOnly ==
    (args.cls = "BinaryMetropolis" /\ phase # "new") =>
        (phase = "ready" <=> \A i \in 1..Len(args.vars) : args.vars[i] = "binary")

C8_AcceptedIncrement ==
    [][AstepTaken =>
        self'.accepted =
            (IF self.tune /\ self.steps_until_tune = 0 THEN 0 ELSE self.accepted)
            + (IF call'.q_new # call'.q0 \/ call'.q = call'.q0 THEN 1 ELSE 0)]_vars

C8_Witness ==
    /\ IsMetropolis /\ calls = 2 /\ trace = <<0, 1>> /\ self.accepted = 1
    /\ call.q = call.q0 /\ call.logp_q = NegInf

RECURSIVE SumFrom(_, _, _)
SumFrom(seq, lo, hi) == IF lo > hi THEN 0 ELSE seq[lo] + SumFrom(seq, lo + 1, hi)

\* C9: with tuning enabled the countdown drops by 1 per call and restarts at
\* N only in a call entered at 0, so it stays in 0..N, tuning fires in call
\* N+1 and then every N calls, and the rate passed to tune is the count of
\* the N preceding calls over N, within [0, 1]; with tuning disabled the
\* countdown drops by 1 per call and never restarts.
C9_Countdown ==
    /\ [][AstepTaken =>
            self'.steps_until_tune =
                (IF self.tune /\ self.steps_until_tune = 0
                 THEN self.tune_interval ELSE self.steps_until_tune) - 1]_vars
    /\ [](IsMetropolis =>
            LET N == self.tune_interval
            IN  IF self.tune
                THEN /\ self.steps_until_tune \in 0..N
                     /\ fired = {c \in 1..calls : c > 1 /\ (c - 1) % N = 0}
                     /\ calls \in fired =>
                            /\ call.acc_rate
                                 = Norm(SumFrom(trace, calls - N, calls - 1), N)
                            /\ ~RLt(call.acc_rate, Rat(0))
                            /\ ~RGt(call.acc_rate, Rat(1))
                ELSE /\ self.steps_until_tune = N - calls
                     /\ fired = {})

C9_Witness ==
    /\ IsMetropolis /\ self.tune /\ self.tune_interval = 2 /\ calls = 5
    /\ fired = {3, 5} /\ call.acc_rate = <<1, 2>> /\ self.steps_until_tune = 1

\* C10: BinaryMetropolis.astep leaves scaling, accepted and steps_until_tune at
\* their values from construction, so the flip probability is the same on
\* every call.
C10_BinaryFrame ==
    IsBinary =>
        /\ self.scaling = args.scaling
        /\ self.accepted = 0
        /\ self.steps_until_tune = args.tune_interval
        /\ calls > 0 => call.p_jump = PJump(args.scaling)

C10_Witness ==
    /\ IsBinary /\ calls >= 3 /\ self.tune /\ args.scaling = Rat(1)
    /\ call.q_new # call.q0

====
